---- MODULE Spec2Model ----
(***************************************************************************)
(* Model of the PashuMitra transactional-email layer:                      *)
(*   backend/services/resendEmailService.js  (Resend adapter)              *)
(*   backend/services/emailManager.js        (delivery router)             *)
(*   backend/controllers/authController.js   (auth request handlers)       *)
(* The SES adapter (backend/services/emailService.js) and the User model   *)
(* are collaborators whose source is not part of the repository extract;   *)
(* they are modelled from the written specification.                       *)
(***************************************************************************)
EXTENDS Integers, Sequences, FiniteSets, TLC

\* Number of router dispatches (in flight or finished) in one behaviour.
MaxDispatch == 2
MaxVerifying == 2
MaxTokens == 2

(***************************************************************************)
(* JavaScript values.                                                      *)
(***************************************************************************)
\* The JavaScript value undefined (an absent field, an unset variable).
Undefined == "undefined"

\* JavaScript truthiness of a string-or-undefined value: undefined and ''
\* are falsy, every other string (and every array, [] included) is truthy.
Truthy(v) == v \notin {Undefined, ""}

\* JavaScript a || b.
Or(a, b) == IF Truthy(a) THEN a ELSE b

\* The `to` field of a message: absent, '', one address, an empty array,
\* an array of one address.
EmptyArray == "[]"
AddrArray == "[a@x.org]"
IsArray(to) == to \in {EmptyArray, AddrArray}

\* Array.isArray(to) ? to : [to]
ToArray(to) ==
  IF IsArray(to)
  THEN (IF to = EmptyArray THEN << >> ELSE << "a@x.org" >>)
  ELSE << to >>

(***************************************************************************)
(* Environment (process.env) values the services read.                     *)
(***************************************************************************)
EnvServiceValues == {Undefined, "", "resend", "ses", "sendgrid"}
EnvKeyValues == {Undefined, "re_key"}

(***************************************************************************)
(* Messages, user profiles, delivery results.                              *)
(***************************************************************************)
Msg(to, subject, html, htmlContent) ==
  [isNull |-> FALSE, to |-> to, subject |-> subject,
   html |-> html, htmlContent |-> htmlContent,
   text |-> Undefined, textContent |-> Undefined]

\* A null / undefined emailData argument.
NullMsg ==
  [isNull |-> TRUE, to |-> Undefined, subject |-> Undefined,
   html |-> Undefined, htmlContent |-> Undefined,
   text |-> Undefined, textContent |-> Undefined]

\* The emailData arguments given to sendEmail.
Messages ==
  { NullMsg,
    Msg("a@x.org", "Hi", "<p>hi</p>", Undefined),
    Msg("a@x.org", "Hi", Undefined, "<p>hi</p>"),
    Msg(AddrArray, "Hi", "<p>hi</p>", Undefined),
    Msg(EmptyArray, "Hi", "<p>hi</p>", Undefined),
    Msg(Undefined, "Hi", "<p>hi</p>", Undefined),
    Msg("a@x.org", "", "<p>hi</p>", Undefined),
    Msg("a@x.org", "Hi", Undefined, Undefined) }

NullUser == [isNull |-> TRUE, email |-> Undefined, name |-> Undefined]
Profile(email, name) == [isNull |-> FALSE, email |-> email, name |-> name]

\* The user arguments given to sendVerificationEmail / sendWelcomeEmail.
Profiles == { NullUser, Profile("a@x.org", "Asha"), Profile(Undefined, "Asha") }

Tokens == { "tok123" }

\* {success, messageId, service, error}; an absent field is undefined.
Success(svc, id) ==
  [success |-> TRUE, messageId |-> id, service |-> svc, error |-> Undefined]
Failed(svc, err) ==
  [success |-> FALSE, messageId |-> Undefined, service |-> svc, error |-> err]

\* Placeholder for "no value was returned" (the call threw / is pending).
NoResult == Failed(Undefined, Undefined)

\* What one adapter invocation did: threw or returned `result`, after `net`
\* vendor network calls, for the message `msg` handed to its sendEmail.
Returned(msg, result, net) ==
  [threw |-> FALSE, error |-> Undefined, result |-> result, net |-> net, msg |-> msg]
Threw(msg, err, net) ==
  [threw |-> TRUE, error |-> err, result |-> NoResult, net |-> net, msg |-> msg]

(***************************************************************************)
(* Resend adapter: resendEmailService.js                                   *)
(***************************************************************************)
\* Outcomes of `await this.resend.emails.send(payload)`:
\*   id      resolves to an object carrying an id
\*   noid    resolves to an object without an id field
\*   nodata  resolves to undefined / null
\*   reject  rejects (vendor rejection, rate limit, network exception)
VendorOutcomes == {"id", "noid", "nodata", "reject"}

\* The catch block of sendEmail: the logger call reads emailData.to and
\* emailData.subject before the failed result is built.
ResendCatch(emailData, err, net) ==
  IF emailData.isNull
  THEN Threw(emailData, "TypeError", net)
  ELSE Returned(emailData, Failed("resend", err), net)

ResendSendEmail(key, emailData, vendor) ==
  IF ~Truthy(key)
  THEN ResendCatch(emailData, "RESEND_API_KEY not configured", 0)
  ELSE IF emailData.isNull
  THEN ResendCatch(emailData, "TypeError", 0)
  ELSE
    LET htmlToSend == Or(emailData.html, emailData.htmlContent) IN
    IF ~Truthy(emailData.to) \/ ~Truthy(emailData.subject) \/ ~Truthy(htmlToSend)
    THEN ResendCatch(emailData, "Missing required email parameters", 0)
    ELSE
      CASE vendor = "reject" -> ResendCatch(emailData, "vendor error", 1)
        [] vendor = "nodata" -> ResendCatch(emailData, "TypeError", 1)
        [] vendor = "noid"   -> Returned(emailData, Success("resend", Undefined), 1)
        [] OTHER             -> Returned(emailData, Success("resend", "msg-1"), 1)

\* The message sendEmailVerification / sendWelcomeEmail hand to sendEmail:
\* {to: email, subject, htmlContent, textContent}.
ResendBuild(user, subject, body) == Msg(user.email, subject, Undefined, body)

\* `${this.frontendUrl}/verify-email?token=${verificationToken}`
VerificationUrl(frontend, token) == frontend \o "/verify-email?token=" \o token

\* The HTML template of sendEmailVerification: the greeting, the button's
\* href and the copy-and-paste paragraph (the styling is left out).
VerificationHtml(frontend, user, token) ==
  "<h3>Hello " \o user.name \o "!</h3><a href='"
    \o VerificationUrl(frontend, token) \o "'>Verify Email Address</a><p>"
    \o VerificationUrl(frontend, token) \o "</p>"

\* The text template of sendEmailVerification.
VerificationText(frontend, user, token) ==
  "Hello " \o user.name \o "! Click here to verify: "
    \o VerificationUrl(frontend, token)
    \o " This verification link will expire in 24 hours"

ResendSendEmailVerification(key, frontend, user, token, vendor) ==
  IF user.isNull
  THEN Threw(NullMsg, "TypeError", 0)
  ELSE ResendSendEmail(key,
         [ResendBuild(user, "Verify Your Email - PashuMitra Portal",
                      VerificationHtml(frontend, user, token))
            EXCEPT !.textContent = VerificationText(frontend, user, token)],
         vendor)

ResendSendWelcomeEmail(key, user, vendor) ==
  IF user.isNull
  THEN Threw(NullMsg, "TypeError", 0)
  ELSE ResendSendEmail(key,
         ResendBuild(user, "Welcome to PashuMitra Portal!", "<welcome>"),
         vendor)

(***************************************************************************)
(* SES adapter: emailService.js is not part of the extract. Modelled from  *)
(* the adapter contract of the specification (section 4.1): a message      *)
(* without recipient, subject or HTML body fails without a network call;   *)
(* a vendor failure becomes a failed result; the adapter never throws.     *)
(***************************************************************************)
SesOutcomes == {"ok", "fail"}

SesSendEmail(sesEmailData, vendor) ==
  IF ~Truthy(sesEmailData.to) \/ ToArray(sesEmailData.to) = << >>
     \/ ~Truthy(sesEmailData.subject) \/ ~Truthy(sesEmailData.htmlContent)
  THEN Returned(sesEmailData, Failed("ses", "ValidationError"), 0)
  ELSE IF vendor = "ok"
  THEN Returned(sesEmailData, Success("ses", "ses-1"), 1)
  ELSE Returned(sesEmailData, Failed("ses", "TransportError"), 1)

SesSendEmailVerification(user, token, vendor) ==
  SesSendEmail(Msg(user.email, "Verify Your Email", Undefined, "<verify>"), vendor)

SesSendWelcomeEmail(user, vendor) ==
  SesSendEmail(Msg(user.email, "Welcome", Undefined, "<welcome>"), vendor)

(***************************************************************************)
(* State.                                                                  *)
(***************************************************************************)
VARIABLES
  env,              \* process.env: EMAIL_SERVICE and RESEND_API_KEY
  primaryService,   \* EmailManager.primaryService
  fallbackService,  \* EmailManager.fallbackService
  apiKey,           \* ResendEmailService.apiKey
  frontendUrl,      \* ResendEmailService.frontendUrl
  dotenvFile,       \* the variables the .env file defines
  dotenvLoaded,     \* require('dotenv').config() has run
  constructed,      \* the two service singletons have been constructed
  tasks,            \* the router calls: in flight or finished
  users,            \* the User collection, by email
  responses,        \* the register responses emitted so far
  lastResponse,     \* the response of the latest request to another handler
  usedTokens,       \* the verification tokens that have verified an email
  forgotReplies,    \* the forgotPassword replies, with whether the user existed
  verifying         \* the verifyEmail requests between their lookups and save

vars ==
  << env, primaryService, fallbackService, apiKey, frontendUrl, dotenvFile,
     dotenvLoaded, constructed, tasks, users, responses, lastResponse,
     usedTokens, forgotReplies, verifying >>

DispatchIds == 1 .. MaxDispatch

\* verifyEmail requests in flight at once.
VerifyIds == 1 .. MaxVerifying

NoVerify == [active |-> FALSE, token |-> Undefined, email |-> Undefined]

(***************************************************************************)
(* Delivery router: emailManager.js                                        *)
(***************************************************************************)
\* constructor: this.primaryService = process.env.EMAIL_SERVICE || 'ses'
ConstructPrimary(envService) == Or(envService, "ses")

\* constructor: this.fallbackService = 'ses'
ConstructFallback == "ses"

\* ResendEmailService constructor: this.apiKey = process.env.RESEND_API_KEY
ConstructApiKey(envKey) == envKey

\* Variant of ConstructFrontendUrl without the default.
ConstructFrontendUrlNoDefault(envUrl) == envUrl

\* this.frontendUrl = process.env.FRONTEND_URL || 'http://localhost:3000'
ConstructFrontendUrl(envUrl) == Or(envUrl, "http://localhost:3000")

\* The adapter the primary branch calls: Resend only for 'resend', SES for
\* every other value of primaryService.
PrimaryAdapter(primary) == IF primary = "resend" THEN "resend" ELSE "ses"

\* The adapter the fallback branch calls; neither branch for another value.
FallbackAdapter(fallback) ==
  IF fallback = "ses" THEN "ses"
  ELSE IF fallback = "resend" THEN "resend"
  ELSE "none"

\* Variant of ShouldFallback that does not look at the primary result.
ShouldFallbackIgnoringSuccess(result, primary, fallback) == primary # fallback

\* Variant of ShouldFallback that does not compare the two services.
ShouldFallbackIgnoringSameService(result, primary, fallback) == ~result.success

\* if (!result.success && this.primaryService !== this.fallbackService)
ShouldFallback(result, primary, fallback) ==
  ~result.success /\ primary # fallback

\* sesEmailData = {...emailData, htmlContent: emailData.html || emailData.htmlContent}
ToSesEmailData(emailData) ==
  [emailData EXCEPT !.htmlContent = Or(emailData.html, emailData.htmlContent),
                    !.textContent = Or(emailData.text, emailData.textContent)]

\* The value a router entry point returns from its own catch block.
RouterCatch(kind, err) ==
  IF kind = "sendEmail"
  THEN Failed("email-manager", err)
  ELSE Failed(Undefined, err)

Kinds == {"sendEmail", "sendVerificationEmail", "sendWelcomeEmail"}

IdleTask ==
  [kind |-> "none", origin |-> "none", emailData |-> NullMsg, user |-> NullUser,
   token |-> Undefined, pc |-> "idle", calls |-> << >>,
   returned |-> NoResult, threw |-> FALSE]

\* One adapter invocation as the router's log keeps it.
LogEntry(role, adapter, inv) ==
  [role |-> role, adapter |-> adapter, threw |-> inv.threw, error |-> inv.error,
   result |-> inv.result, net |-> inv.net, msg |-> inv.msg]

\* The entry point returns `result` to its caller.
Finish(t, result) == [t EXCEPT !.pc = "done", !.returned = result]

\* The entry point's promise rejects: its catch block threw.
Reject(t) == [t EXCEPT !.pc = "done", !.threw = TRUE]

Outcomes(adapter) == IF adapter = "resend" THEN VendorOutcomes ELSE SesOutcomes

\* The adapter method a router entry point of kind t.kind calls.
InvokeAdapter(adapter, t, o) ==
  IF adapter = "resend"
  THEN CASE t.kind = "sendEmail" -> ResendSendEmail(apiKey, t.emailData, o)
         [] t.kind = "sendVerificationEmail" ->
              ResendSendEmailVerification(apiKey, frontendUrl, t.user, t.token, o)
         [] OTHER -> ResendSendWelcomeEmail(apiKey, t.user, o)
  ELSE CASE t.kind = "sendEmail" -> SesSendEmail(ToSesEmailData(t.emailData), o)
         [] t.kind = "sendVerificationEmail" ->
              SesSendEmailVerification(t.user, t.token, o)
         [] OTHER -> SesSendWelcomeEmail(t.user, o)

\* The synchronous start of a router entry point, up to its first await.
\*  sendEmail: with SES as primary the conversion reads emailData.html, which
\*    throws for a null emailData; the catch block returns the failed result.
\*  sendVerificationEmail / sendWelcomeEmail: the first logger call reads
\*    user.email; for a null user it throws, and so does the catch block,
\*    which reads user.email again.
StartedTask(kind, origin, emailData, user, token) ==
  LET t == [IdleTask EXCEPT !.kind = kind, !.origin = origin,
                            !.emailData = emailData, !.user = user,
                            !.token = token]
  IN
  IF kind = "sendEmail"
  THEN IF PrimaryAdapter(primaryService) = "ses" /\ emailData.isNull
       THEN Finish(t, RouterCatch(kind, "TypeError"))
       ELSE [t EXCEPT !.pc = "awaitPrimary"]
  ELSE IF user.isNull
       THEN Reject(t)
       ELSE [t EXCEPT !.pc = "awaitPrimary"]

\* The entry point after its primary adapter call has settled.
AfterPrimary(t, inv) ==
  LET logged == [t EXCEPT !.calls =
                   Append(@, LogEntry("primary", PrimaryAdapter(primaryService), inv))]
  IN
  IF inv.threw
  THEN Finish(logged, RouterCatch(t.kind, inv.error))
  ELSE IF ShouldFallback(inv.result, primaryService, fallbackService)
            /\ FallbackAdapter(fallbackService) # "none"
       THEN [logged EXCEPT !.pc = "awaitFallback"]
       ELSE Finish(logged, inv.result)

\* Variant of AfterFallback that keeps returning the primary's result.
AfterFallbackReturnsPrimary(t, inv) ==
  LET logged == [t EXCEPT !.calls =
                   Append(@, LogEntry("fallback", FallbackAdapter(fallbackService), inv))]
  IN Finish(logged, t.calls[1].result)

\* Variant of AfterFallback that tries the fallback again after it failed.
AfterFallbackRetrying(t, inv) ==
  LET logged == [t EXCEPT !.calls =
                   Append(@, LogEntry("fallback", FallbackAdapter(fallbackService), inv))]
  IN
  IF ~inv.threw /\ ~inv.result.success /\ Len(logged.calls) < 3
  THEN [logged EXCEPT !.pc = "awaitFallback"]
  ELSE Finish(logged, inv.result)

\* The entry point after its fallback adapter call has settled.
AfterFallback(t, inv) ==
  LET logged == [t EXCEPT !.calls =
                   Append(@, LogEntry("fallback", FallbackAdapter(fallbackService), inv))]
  IN
  IF inv.threw
  THEN Finish(logged, RouterCatch(t.kind, inv.error))
  ELSE Finish(logged, inv.result)

\* The first unused slot of the call table.
FreeSlot(i) ==
  /\ tasks[i].pc = "idle"
  /\ \A j \in DispatchIds : j < i => tasks[j].pc # "idle"

UnchangedConfig ==
  UNCHANGED << env, primaryService, fallbackService, apiKey, frontendUrl,
               dotenvFile, dotenvLoaded, constructed >>

\* What register leaves alone.
UnchangedFlow == UNCHANGED << lastResponse, usedTokens, forgotReplies, verifying >>

UnchangedAuth == UNCHANGED << users, responses >> /\ UnchangedFlow

StartSendEmail(i, emailData) ==
  /\ FreeSlot(i)
  /\ tasks' = [tasks EXCEPT ![i] =
                 StartedTask("sendEmail", "direct", emailData, NullUser, Undefined)]
  /\ UnchangedConfig
  /\ UnchangedAuth

StartSendVerificationEmail(i, user, token) ==
  /\ FreeSlot(i)
  /\ tasks' = [tasks EXCEPT ![i] =
                 StartedTask("sendVerificationEmail", "direct", NullMsg, user, token)]
  /\ UnchangedConfig
  /\ UnchangedAuth

StartSendWelcomeEmail(i, user) ==
  /\ FreeSlot(i)
  /\ tasks' = [tasks EXCEPT ![i] =
                 StartedTask("sendWelcomeEmail", "direct", NullMsg, user, Undefined)]
  /\ UnchangedConfig
  /\ UnchangedAuth

\* Variant of PrimaryComplete that remembers a failed primary: the router
\* switches its primary service to the fallback for the calls that follow.
PrimaryCompleteSwitching(i) ==
  /\ tasks[i].pc = "awaitPrimary"
  /\ \E o \in Outcomes(PrimaryAdapter(primaryService)) :
       LET inv == InvokeAdapter(PrimaryAdapter(primaryService), tasks[i], o) IN
       /\ tasks' = [tasks EXCEPT ![i] = AfterPrimary(tasks[i], inv)]
       /\ primaryService' =
            IF ~inv.threw /\ ~inv.result.success THEN fallbackService ELSE primaryService
  /\ UNCHANGED << env, fallbackService, apiKey, frontendUrl, dotenvFile,
                  dotenvLoaded, constructed >>
  /\ UnchangedAuth

PrimaryComplete(i) ==
  /\ tasks[i].pc = "awaitPrimary"
  /\ \E o \in Outcomes(PrimaryAdapter(primaryService)) :
       tasks' = [tasks EXCEPT ![i] =
                   AfterPrimary(tasks[i],
                     InvokeAdapter(PrimaryAdapter(primaryService), tasks[i], o))]
  /\ UnchangedConfig
  /\ UnchangedAuth

FallbackComplete(i) ==
  /\ tasks[i].pc = "awaitFallback"
  /\ \E o \in Outcomes(FallbackAdapter(fallbackService)) :
       tasks' = [tasks EXCEPT ![i] =
                   AfterFallback(tasks[i],
                     InvokeAdapter(FallbackAdapter(fallbackService), tasks[i], o))]
  /\ UnchangedConfig
  /\ UnchangedAuth

(***************************************************************************)
(* User collection: models/User.js is not part of the extract. Modelled    *)
(* from its use in authController.js: a record per email, created with     *)
(* emailVerified false; getEmailVerificationToken stores a token on the    *)
(* record and returns it.                                                  *)
(***************************************************************************)
Emails == {"a@x.org", "b@x.org"}

\* issued counts the verification tokens generated for the record; the two
\* Expired flags stand for `expire <= Date.now()`.
NoUser ==
  [exists |-> FALSE, name |-> Undefined, password |-> Undefined,
   emailVerified |-> FALSE,
   emailVerificationToken |-> Undefined, emailVerificationExpired |-> FALSE,
   issued |-> 0,
   resetPasswordToken |-> Undefined, resetPasswordExpired |-> FALSE]

\* User.create({name, email, password, ...})
UserCreate(name, password) ==
  [NoUser EXCEPT !.exists = TRUE, !.name = name, !.password = password]

\* crypto.createHash('sha256').update(token).digest('hex')
Sha256(token) == "sha256:" \o token

\* The n-th random verification token generated for a record.
EmailVerificationToken(email, n) == "v-" \o email \o "-" \o ToString(n)

\* user.getEmailVerificationToken(): a fresh token is generated, its hash and
\* a new expiry are stored on the record, the raw token is returned.
WithEmailVerificationToken(user, email) ==
  [user EXCEPT !.emailVerificationToken =
                 Sha256(EmailVerificationToken(email, user.issued + 1)),
               !.emailVerificationExpired = FALSE,
               !.issued = user.issued + 1]

\* The random reset token generated for a record.
ResetPasswordToken(email) == "r-" \o email

\* user.getResetPasswordToken(): as above, for the reset token.
WithResetPasswordToken(user, email) ==
  [user EXCEPT !.resetPasswordToken = Sha256(ResetPasswordToken(email)),
               !.resetPasswordExpired = FALSE]

(***************************************************************************)
(* Auth request handlers: authController.js                                *)
(***************************************************************************)
\* One HTTP response: res.status(status).json({success, message, ...}).
\* task: the router call the handler started (0: none); sendSettled: whether
\* that call had settled when the response was emitted.
Response(handler, email, status, success, message, task, sendSettled) ==
  [handler |-> handler, email |-> email, status |-> status, success |-> success,
   message |-> message, task |-> task, sendSettled |-> sendSettled]

\* The response of a handler other than register, for the user record
\* `email` (undefined when no record was found). token: the body carries a
\* JWT; verified: the emailVerified flag of the user the JWT was signed for;
\* task, sendSettled: as above. For verifyEmail, presented: the token of the
\* request; usedBefore: that token had already verified an email;
\* anyVerified: some record had emailVerified set when the lookups ran;
\* changed: the request changed a user record.
Reply(handler, email, status, success, message) ==
  [handler |-> handler, email |-> email, status |-> status, success |-> success,
   message |-> message, token |-> FALSE, verified |-> FALSE,
   task |-> 0, sendSettled |-> FALSE, presented |-> Undefined,
   usedBefore |-> FALSE, anyVerified |-> FALSE, changed |-> FALSE]

NoReply == Reply(Undefined, Undefined, 0, FALSE, Undefined)

\* The controller's sendVerificationEmail wrapper: the router's result, or
\* a failed result when the router call rejects.
ControllerSendVerificationEmail(t) ==
  IF t.threw THEN Failed(Undefined, "TypeError") ELSE t.returned

\* Variant of register that awaits the send before it responds: no response
\* is emitted in the step that starts the send.
RegisterAwaitingSend(name, email, password) ==
  /\ UnchangedConfig
  /\ Truthy(name) /\ Truthy(email) /\ Truthy(password)
  /\ ~users[email].exists
  /\ \E i \in DispatchIds :
       /\ FreeSlot(i)
       /\ users' = [users EXCEPT ![email] =
                      WithEmailVerificationToken(UserCreate(name, password), email)]
       /\ tasks' = [tasks EXCEPT ![i] =
                      StartedTask("sendVerificationEmail", "register", NullMsg,
                                  Profile(email, name),
                                  EmailVerificationToken(email, 1))]
       /\ UNCHANGED responses
  /\ UnchangedFlow

\* register: validation, duplicate check, User.create, token, the detached
\* sendVerificationEmail(...).catch(...), then the 201 response.
Register(name, email, password) ==
  /\ UnchangedConfig
  /\ IF ~Truthy(name) \/ ~Truthy(email) \/ ~Truthy(password)
     THEN /\ responses' = responses \cup
               {Response("register", email, 400, FALSE,
                         "Name, email, and password are required", 0, FALSE)}
          /\ UNCHANGED << users, tasks >>
     ELSE IF users[email].exists
     THEN /\ responses' = responses \cup
               {Response("register", email, 400, FALSE,
                         "User with this email already exists", 0, FALSE)}
          /\ UNCHANGED << users, tasks >>
     ELSE \E i \in DispatchIds :
          /\ FreeSlot(i)
          /\ users' = [users EXCEPT ![email] =
                         WithEmailVerificationToken(UserCreate(name, password), email)]
          /\ tasks' = [tasks EXCEPT ![i] =
                         StartedTask("sendVerificationEmail", "register", NullMsg,
                                     Profile(email, name),
                                     EmailVerificationToken(email, 1))]
          /\ responses' = responses \cup
               {Response("register", email, 201, TRUE,
                         "Registration successful!", i, tasks'[i].pc = "done")}
  /\ UnchangedFlow

\* What a handler that only responds leaves alone.
OnlyResponds ==
  /\ UnchangedConfig
  /\ UNCHANGED << tasks, users, responses, usedTokens, forgotReplies, verifying >>

\* login. isLocked and isActive belong to the User model and are inputs
\* here; incLoginAttempts, resetLoginAttempts and updateLastLogin change
\* only fields the other handlers never read.
Login(email, password, isLocked, isActive) ==
  /\ OnlyResponds
  /\ lastResponse' =
       IF ~users[email].exists
       THEN Reply("login", email, 401, FALSE, "Invalid credentials")
       ELSE IF isLocked
       THEN Reply("login", email, 423, FALSE, "Account is temporarily locked")
       ELSE IF ~isActive
       THEN Reply("login", email, 401, FALSE, "Account has been deactivated")
       ELSE IF users[email].password # password
       THEN Reply("login", email, 401, FALSE, "Invalid credentials")
       ELSE [Reply("login", email, 200, TRUE, "Login successful")
               EXCEPT !.token = TRUE, !.verified = users[email].emailVerified]

\* User.findOne({emailVerificationToken}): the records storing this hash.
WithVerificationHash(hash) ==
  {e \in Emails : users[e].exists /\ users[e].emailVerificationToken = hash}

\* Variant of the unmatched-token branch of verifyEmail that does not look
\* for a verified user.
UnmatchedTokenMessagePlain == "Invalid verification token"

\* verifyEmail, no record stores the token: User.findOne({emailVerified:
\* true}) picks the message.
UnmatchedTokenMessage ==
  IF \E e \in Emails : users[e].exists /\ users[e].emailVerified
  THEN "This verification link has already been used or is invalid"
  ELSE "Invalid verification token"

\* Lowest free verifyEmail request slot.
FreeVerify(j) ==
  /\ ~verifying[j].active
  /\ \A k \in VerifyIds : k < j => verifying[k].active

\* verifyEmail up to `await user.save(...)`: the hash, the two lookups and
\* the already-verified check. A request that passes them holds the user
\* document until its save resumes.
VerifyEmailLookups(j, token) ==
  /\ FreeVerify(j)
  /\ UnchangedConfig
  /\ UNCHANGED << tasks, users, responses, usedTokens, forgotReplies >>
  /\ LET owners == WithVerificationHash(Sha256(token))
         refuse(email, message) ==
           /\ lastResponse' =
                [Reply("verifyEmail", email, 400, FALSE, message)
                   EXCEPT !.presented = token,
                          !.usedBefore = token \in usedTokens,
                          !.anyVerified =
                            \E e \in Emails : users[e].emailVerified]
           /\ UNCHANGED verifying
     IN
     IF owners = {}
     THEN refuse(Undefined, UnmatchedTokenMessage)
     ELSE LET email == CHOOSE e \in owners : TRUE IN
          IF users[email].emailVerificationExpired
          THEN refuse(email, "Verification token has expired")
          ELSE IF users[email].emailVerified
          THEN refuse(email, "Your email has already been verified")
          ELSE /\ verifying' = [verifying EXCEPT ![j] =
                                  [active |-> TRUE, token |-> token, email |-> email]]
               /\ UNCHANGED lastResponse

\* verifyEmail from the assignments to the response: the document is saved
\* with emailVerified set and the token and its expiry unset, a JWT is signed.
VerifyEmailSave(j) ==
  /\ verifying[j].active
  /\ UnchangedConfig
  /\ UNCHANGED << tasks, responses, forgotReplies >>
  /\ LET email == verifying[j].email
         token == verifying[j].token
     IN
     /\ users' = [users EXCEPT ![email] =
                    [@ EXCEPT !.emailVerified = TRUE,
                              !.emailVerificationToken = Undefined,
                              !.emailVerificationExpired = FALSE]]
     /\ lastResponse' =
          [Reply("verifyEmail", email, 200, TRUE, "Email verified successfully")
             EXCEPT !.token = TRUE, !.verified = TRUE,
                    !.presented = token,
                    !.usedBefore = token \in usedTokens,
                    !.changed = (users' # users)]
     /\ usedTokens' = usedTokens \cup {token}
     /\ verifying' = [verifying EXCEPT ![j] = NoVerify]

\* Date.now() passes emailVerificationExpire of a record.
ExpireVerificationToken(email) ==
  /\ users[email].exists
  /\ users[email].emailVerificationToken # Undefined
  /\ ~users[email].emailVerificationExpired
  /\ users' = [users EXCEPT ![email].emailVerificationExpired = TRUE]
  /\ UnchangedConfig
  /\ UNCHANGED << tasks, responses >>
  /\ UnchangedFlow

\* resendVerification: lookups, a new token, the send started and not
\* awaited, then the 200 response.
ResendVerification(email) ==
  /\ UnchangedConfig
  /\ UNCHANGED << responses, usedTokens, forgotReplies, verifying >>
  /\ IF ~users[email].exists
     THEN /\ lastResponse' = Reply("resendVerification", email, 404, FALSE,
                                   "User not found")
          /\ UNCHANGED << users, tasks >>
     ELSE IF users[email].emailVerified
     THEN /\ lastResponse' = Reply("resendVerification", email, 400, FALSE,
                                   "Email is already verified")
          /\ UNCHANGED << users, tasks >>
     ELSE \E i \in DispatchIds :
          /\ FreeSlot(i)
          /\ users[email].issued < MaxTokens
          /\ users' = [users EXCEPT ![email] =
                         WithEmailVerificationToken(@, email)]
          /\ tasks' = [tasks EXCEPT ![i] =
                         StartedTask("sendVerificationEmail", "resendVerification",
                                     NullMsg, Profile(email, users[email].name),
                                     EmailVerificationToken(email, users'[email].issued))]
          /\ lastResponse' =
               [Reply("resendVerification", email, 200, TRUE,
                      "Verification email sent")
                  EXCEPT !.task = i, !.sendSettled = (tasks'[i].pc = "done")]

\* No password-reset send was started.
NoSend ==
  [started |-> FALSE, email |-> Undefined, to |-> Undefined,
   subject |-> Undefined, message |-> Undefined, routerCalls |-> 0,
   error |-> Undefined, value |-> Undefined]

\* `${process.env.FRONTEND_URL}/reset-password?token=${token}`
ResetUrl(token) == env.FRONTEND_URL \o "/reset-password?token=" \o token

\* sendPasswordResetEmail: the URL and the HTML are built, then the call
\* sendEmail({email, subject, message}) names an identifier the module never
\* declares; the ReferenceError is caught and logged, and the function
\* returns undefined without any call to the email manager.
SendPasswordResetEmail(email, name, token) ==
  [started |-> TRUE, email |-> email, to |-> Undefined,
   subject |-> "Password Reset Request - PashuMitra Portal",
   message |-> "<p>Hello " \o name \o ",</p><a href='" \o ResetUrl(token)
                 \o "'>Reset Password</a><p>" \o ResetUrl(token) \o "</p>",
   routerCalls |-> 0, error |-> "ReferenceError", value |-> Undefined]

\* One forgotPassword exchange: whether the record existed, the response,
\* and the password-reset send.
ForgotReply(email, exists, status, success, message, send) ==
  [email |-> email, exists |-> exists, status |-> status, success |-> success,
   message |-> message, send |-> send]

\* Variant of forgotPassword that answers 404 when no record is found.
ForgotPasswordRevealing(email) ==
  /\ UnchangedConfig
  /\ UNCHANGED << tasks, responses, lastResponse, usedTokens, verifying >>
  /\ IF ~users[email].exists
     THEN /\ forgotReplies' = forgotReplies \cup
               {ForgotReply(email, FALSE, 404, FALSE, "User not found", NoSend)}
          /\ UNCHANGED users
     ELSE /\ users' = [users EXCEPT ![email] = WithResetPasswordToken(@, email)]
          /\ forgotReplies' = forgotReplies \cup
               {ForgotReply(email, TRUE, 200, TRUE,
                  "If an account with that email exists, a password reset link has been sent.",
                  SendPasswordResetEmail(email, users[email].name,
                                         ResetPasswordToken(email)))}

\* forgotPassword: the lookup, the reset token, the send started and not
\* awaited, and the response, the same in both branches.
ForgotPassword(email) ==
  /\ UnchangedConfig
  /\ UNCHANGED << tasks, responses, lastResponse, usedTokens, verifying >>
  /\ IF ~users[email].exists
     THEN /\ forgotReplies' = forgotReplies \cup
               {ForgotReply(email, FALSE, 200, TRUE,
                  "If an account with that email exists, a password reset link has been sent.",
                  NoSend)}
          /\ UNCHANGED users
     ELSE /\ users' = [users EXCEPT ![email] = WithResetPasswordToken(@, email)]
          /\ forgotReplies' = forgotReplies \cup
               {ForgotReply(email, TRUE, 200, TRUE,
                  "If an account with that email exists, a password reset link has been sent.",
                  SendPasswordResetEmail(email, users[email].name,
                                         ResetPasswordToken(email)))}

\* User.findOne({resetPasswordToken, resetPasswordExpire: {$gt: Date.now()}})
WithResetHash(hash) ==
  {e \in Emails : /\ users[e].exists
                  /\ users[e].resetPasswordToken = hash
                  /\ ~users[e].resetPasswordExpired}

\* resetPassword: the hash, the lookup, the new password, the token and its
\* expiry unset, a JWT signed.
ResetPassword(token, password) ==
  /\ UnchangedConfig
  /\ UNCHANGED << tasks, responses, usedTokens, forgotReplies, verifying >>
  /\ LET owners == WithResetHash(Sha256(token)) IN
     IF owners = {}
     THEN /\ lastResponse' = Reply("resetPassword", Undefined, 400, FALSE,
                                   "Invalid or expired token")
          /\ UNCHANGED users
     ELSE LET email == CHOOSE e \in owners : TRUE IN
          /\ users' = [users EXCEPT ![email] =
                         [@ EXCEPT !.password = password,
                                   !.resetPasswordToken = Undefined,
                                   !.resetPasswordExpired = FALSE]]
          /\ lastResponse' =
               [Reply("resetPassword", email, 200, TRUE, "Password reset successful")
                  EXCEPT !.token = TRUE, !.verified = users[email].emailVerified]

\* Date.now() passes resetPasswordExpire of a record.
ExpireResetToken(email) ==
  /\ users[email].exists
  /\ users[email].resetPasswordToken # Undefined
  /\ ~users[email].resetPasswordExpired
  /\ users' = [users EXCEPT ![email].resetPasswordExpired = TRUE]
  /\ UnchangedConfig
  /\ UNCHANGED << tasks, responses >>
  /\ UnchangedFlow

(***************************************************************************)
(* Specification of the router and its adapters.                           *)
(***************************************************************************)
\* A .env file that defines nothing.
NoDotenv ==
  [EMAIL_SERVICE |-> Undefined, RESEND_API_KEY |-> Undefined,
   FRONTEND_URL |-> Undefined]

\* Both singletons are constructed from process.env.
Constructed ==
  /\ constructed = TRUE
  /\ primaryService = ConstructPrimary(env.EMAIL_SERVICE)
  /\ fallbackService = ConstructFallback
  /\ apiKey = ConstructApiKey(env.RESEND_API_KEY)
  /\ frontendUrl = ConstructFrontendUrl(env.FRONTEND_URL)

\* No request has been served.
Idle ==
  /\ tasks = [i \in DispatchIds |-> IdleTask]
  /\ users = [e \in Emails |-> NoUser]
  /\ responses = {}
  /\ lastResponse = NoReply
  /\ usedTokens = {}
  /\ forgotReplies = {}
  /\ verifying = [j \in VerifyIds |-> NoVerify]

\* The state once the environment is loaded and both singletons are
\* constructed from it.
Init ==
  /\ env \in [EMAIL_SERVICE : EnvServiceValues, RESEND_API_KEY : EnvKeyValues,
              FRONTEND_URL : {Undefined}]
  /\ dotenvFile = NoDotenv
  /\ dotenvLoaded = TRUE
  /\ Constructed
  /\ Idle

Next ==
  \/ \E i \in DispatchIds, m \in Messages : StartSendEmail(i, m)
  \/ \E i \in DispatchIds, u \in Profiles, k \in Tokens :
       StartSendVerificationEmail(i, u, k)
  \/ \E i \in DispatchIds, u \in Profiles : StartSendWelcomeEmail(i, u)
  \/ \E i \in DispatchIds : PrimaryComplete(i)
  \/ \E i \in DispatchIds : FallbackComplete(i)

Spec == Init /\ [][Next]_vars

(***************************************************************************)
(* Specification of the auth handlers over the router.                     *)
(***************************************************************************)
AuthNext ==
  \/ \E n \in {Undefined, "Asha"}, e \in Emails \cup {Undefined}, p \in {Undefined, "pw"} :
       Register(n, e, p)
  \/ \E i \in DispatchIds : PrimaryComplete(i)
  \/ \E i \in DispatchIds : FallbackComplete(i)

AuthSpec == Init /\ [][AuthNext]_vars

(***************************************************************************)
(* Specification of the verification sends, for every configuration of the *)
(* frontend URL.                                                           *)
(***************************************************************************)
FrontendUrls == {Undefined, "https://pashumitra.app"}

BuilderInit ==
  /\ env \in [EMAIL_SERVICE : EnvServiceValues, RESEND_API_KEY : EnvKeyValues,
              FRONTEND_URL : FrontendUrls]
  /\ dotenvFile = NoDotenv
  /\ dotenvLoaded = TRUE
  /\ Constructed
  /\ Idle

BuilderNext ==
  \/ \E i \in DispatchIds, u \in Profiles, k \in Tokens :
       StartSendVerificationEmail(i, u, k)
  \/ \E i \in DispatchIds : PrimaryComplete(i)
  \/ \E i \in DispatchIds : FallbackComplete(i)

BuilderSpec == BuilderInit /\ [][BuilderNext]_vars

(***************************************************************************)
(* Specification of registration, login and email verification, with       *)
(* nothing configured: SES is both the primary and the fallback service.   *)
(***************************************************************************)
FlowInit ==
  /\ env = NoDotenv
  /\ dotenvFile = NoDotenv
  /\ dotenvLoaded = TRUE
  /\ Constructed
  /\ Idle

\* The tokens a client may present: every token that can be issued, and one
\* that never is.
PresentedTokens ==
  {EmailVerificationToken(e, n) : e \in Emails, n \in 1 .. MaxTokens}
    \cup {"never-issued"}

VerifyNext ==
  \/ \E e \in Emails : Register("Asha", e, "pw")
  \/ \E e \in Emails, p \in {"pw", "bad"}, l \in BOOLEAN, a \in BOOLEAN :
       Login(e, p, l, a)
  \/ \E j \in VerifyIds, k \in PresentedTokens : VerifyEmailLookups(j, k)
  \/ \E j \in VerifyIds : VerifyEmailSave(j)
  \/ \E e \in Emails : ExpireVerificationToken(e)
  \/ \E e \in Emails : ResendVerification(e)
  \/ \E i \in DispatchIds : PrimaryComplete(i)

VerifySpec == FlowInit /\ [][VerifyNext]_vars

(***************************************************************************)
(* Specification of registration and verifyEmail alone, configured as      *)
(* above: the requests that decide what the token lookups find.            *)
(***************************************************************************)
TokenNext ==
  \/ \E e \in Emails : Register("Asha", e, "pw")
  \/ \E j \in VerifyIds, k \in PresentedTokens : VerifyEmailLookups(j, k)
  \/ \E j \in VerifyIds : VerifyEmailSave(j)
  \/ \E e \in Emails : ExpireVerificationToken(e)
  \/ \E i \in DispatchIds : PrimaryComplete(i)

TokenSpec == FlowInit /\ [][TokenNext]_vars

(***************************************************************************)
(* Specification of registration and password reset, configured as above.  *)
(***************************************************************************)
ResetNext ==
  \/ \E e \in Emails : Register("Asha", e, "pw")
  \/ \E e \in Emails : ForgotPassword(e)
  \/ \E k \in {ResetPasswordToken(e) : e \in Emails} \cup {"never-issued"} :
       ResetPassword(k, "pw2")
  \/ \E e \in Emails : ExpireResetToken(e)
  \/ \E i \in DispatchIds : PrimaryComplete(i)

ResetSpec == FlowInit /\ [][ResetNext]_vars

(***************************************************************************)
(* Specification of start-up: the environment file is loaded and the       *)
(* service modules are required, in either order, as a script's first      *)
(* lines decide.                                                           *)
(***************************************************************************)
\* require('dotenv').config(): every variable of the .env file that the
\* process environment does not define yet is copied into process.env.
DotenvConfig(processEnv, file) ==
  [k \in DOMAIN processEnv |->
     IF processEnv[k] = Undefined THEN file[k] ELSE processEnv[k]]

LoadDotenv ==
  /\ ~dotenvLoaded
  /\ dotenvLoaded' = TRUE
  /\ env' = DotenvConfig(env, dotenvFile)
  /\ UNCHANGED << primaryService, fallbackService, apiKey, frontendUrl,
                  dotenvFile, constructed, tasks >>
  /\ UnchangedAuth

\* require('./services/emailManager'), which requires the Resend service:
\* both singletons are constructed from process.env as it is now.
RequireServices ==
  /\ ~constructed
  /\ constructed' = TRUE
  /\ primaryService' = ConstructPrimary(env.EMAIL_SERVICE)
  /\ fallbackService' = ConstructFallback
  /\ apiKey' = ConstructApiKey(env.RESEND_API_KEY)
  /\ frontendUrl' = ConstructFrontendUrl(env.FRONTEND_URL)
  /\ UNCHANGED << env, dotenvFile, dotenvLoaded, tasks >>
  /\ UnchangedAuth

\* emailManager.getStatus(), without sesConfigured and the timestamp.
GetStatus ==
  [primaryService |-> primaryService, fallbackService |-> fallbackService,
   resendConfigured |-> Truthy(env.RESEND_API_KEY)]

BootEnvs ==
  [EMAIL_SERVICE : {Undefined, "resend"}, RESEND_API_KEY : EnvKeyValues,
   FRONTEND_URL : {Undefined}]

\* The process has started; nothing is loaded or constructed.
BootInit ==
  /\ env \in BootEnvs
  /\ dotenvFile \in BootEnvs
  /\ dotenvLoaded = FALSE
  /\ constructed = FALSE
  /\ primaryService = Undefined
  /\ fallbackService = Undefined
  /\ apiKey = Undefined
  /\ frontendUrl = Undefined
  /\ Idle

BootNext ==
  \/ LoadDotenv
  \/ RequireServices
  \/ constructed /\ \E i \in DispatchIds, m \in Messages : StartSendEmail(i, m)
  \/ constructed /\ \E i \in DispatchIds : PrimaryComplete(i)
  \/ constructed /\ \E i \in DispatchIds : FallbackComplete(i)

BootSpec == BootInit /\ [][BootNext]_vars

(***************************************************************************)
(* Properties.                                                             *)
(***************************************************************************)
\* Adapter invocations of a router call so far: the settled ones and the
\* pending one.
Invocations(t) ==
  Len(t.calls) + (IF t.pc \in {"awaitPrimary", "awaitFallback"} THEN 1 ELSE 0)

PrimaryReturnedFailure(t) ==
  Len(t.calls) >= 1 /\ ~t.calls[1].threw /\ ~t.calls[1].result.success

PrimaryReturnedSuccess(t) ==
  Len(t.calls) >= 1 /\ ~t.calls[1].threw /\ t.calls[1].result.success

FallbackCalls(t) == {k \in 1 .. Len(t.calls) : t.calls[k].role = "fallback"}

\* C1: with primaryService # fallbackService, a finished router call (any of
\* the three entry points) whose primary adapter returned success=false has
\* made exactly one fallback call, after the primary call, and when that
\* fallback returned success=true the router returned exactly its result.
C1_FallbackResultReturned ==
  \A i \in DispatchIds :
    LET t == tasks[i] IN
    (t.pc = "done" /\ primaryService # fallbackService /\ PrimaryReturnedFailure(t))
      => /\ Len(t.calls) = 2
         /\ t.calls[1].role = "primary"
         /\ FallbackCalls(t) = {2}
         /\ t.calls[2].adapter = fallbackService
         /\ (~t.calls[2].threw /\ t.calls[2].result.success)
              => (~t.threw /\ t.returned = t.calls[2].result)

C1_Witness ==
  \E i \in DispatchIds :
    LET t == tasks[i] IN
    /\ t.pc = "done" /\ t.kind = "sendVerificationEmail"
    /\ primaryService = "resend"
    /\ PrimaryReturnedFailure(t)
    /\ Len(t.calls) = 2 /\ t.calls[2].result.success
    /\ t.returned = t.calls[2].result
    /\ t.returned.service = "ses"

\* C2: once the primary adapter has returned success=true, the router call
\* is finished, no fallback call was made, and the value returned is the
\* primary adapter's result.
C2_PrimarySuccessReturned ==
  \A i \in DispatchIds :
    LET t == tasks[i] IN
    PrimaryReturnedSuccess(t)
      => /\ t.pc = "done"
         /\ Len(t.calls) = 1
         /\ FallbackCalls(t) = {}
         /\ ~t.threw
         /\ t.returned = t.calls[1].result

C2_Witness ==
  \E i \in DispatchIds :
    LET t == tasks[i] IN
    /\ t.kind = "sendWelcomeEmail" /\ primaryService = "resend"
    /\ PrimaryReturnedSuccess(t)
    /\ t.pc = "done" /\ t.returned.success /\ t.returned.service = "resend"

\* C3: when primaryService equals fallbackService (ses), a router call makes
\* at most one adapter invocation, and a failed primary result is the value
\* returned.
C3_SameServiceSingleAttempt ==
  \A i \in DispatchIds :
    LET t == tasks[i] IN
    primaryService = fallbackService
      => /\ Invocations(t) <= 1
         /\ (t.pc = "done" /\ PrimaryReturnedFailure(t))
              => (Len(t.calls) = 1 /\ ~t.threw /\ t.returned = t.calls[1].result)

C3_Witness ==
  \E i \in DispatchIds :
    LET t == tasks[i] IN
    /\ primaryService = "ses" /\ fallbackService = "ses"
    /\ t.pc = "done" /\ PrimaryReturnedFailure(t)
    /\ t.calls[1].net = 1
    /\ t.returned = t.calls[1].result

\* C4: after construction the router's primary service is one of resend and
\* ses, and its fallback service is ses.
C4_PrimaryIsResendOrSes ==
  primaryService \in {"resend", "ses"} /\ fallbackService = "ses"

\* Steps a router call can still take: two awaits at most.
StepsLeft(t) ==
  CASE t.pc = "idle" -> 3
    [] t.pc = "awaitPrimary" -> 2
    [] t.pc = "awaitFallback" -> 1
    [] OTHER -> 0

C5_Inv ==
  \A i \in DispatchIds :
    LET t == tasks[i] IN
    /\ Invocations(t) <= 2
    /\ Len(t.calls) >= 1 => t.calls[1].role = "primary"
    /\ Len(t.calls) >= 2 => t.calls[2].role = "fallback"
    /\ t.pc = "awaitFallback" => Len(t.calls) = 1
    /\ t.pc = "awaitPrimary" => ENABLED PrimaryComplete(i)
    /\ t.pc = "awaitFallback" => ENABLED FallbackComplete(i)
    /\ (t.pc = "done" /\ Len(t.calls) = 2 /\ PrimaryReturnedFailure(t)
          /\ ~t.calls[2].threw /\ ~t.calls[2].result.success)
         => (~t.threw /\ t.returned = t.calls[2].result)

\* C5: a router call makes at most two adapter invocations, the primary
\* first and then at most one fallback; a pending call can always be
\* resumed and every step of a call brings it closer to its end, so it
\* finishes after at most two awaits; when both adapters returned
\* success=false, the fallback's failed result is returned.
C5_AtMostTwoAttempts ==
  /\ []C5_Inv
  /\ [][\A i \in DispatchIds :
          tasks'[i] # tasks[i] => StepsLeft(tasks'[i]) < StepsLeft(tasks[i])]_vars

C5_Witness ==
  \E i \in DispatchIds :
    LET t == tasks[i] IN
    /\ t.pc = "done" /\ Len(t.calls) = 2
    /\ ~t.calls[1].result.success /\ ~t.calls[2].result.success
    /\ t.calls[1].net = 1 /\ t.calls[2].net = 1
    /\ t.returned = t.calls[2].result

\* Every settled invocation of the Resend adapter's sendEmail.
ResendCalls ==
  {c \in UNION {{tasks[i].calls[k] : k \in 1 .. Len(tasks[i].calls)} : i \in DispatchIds} :
     c.adapter = "resend"}

\* C6: the Resend adapter's sendEmail never throws: whatever the message and
\* the vendor outcome, a failure comes back as a result with success=false
\* and an error detail.
C6_ResendNeverThrows ==
  \A c \in ResendCalls :
    /\ ~c.threw
    /\ ~c.result.success => Truthy(c.result.error)

\* The message has a recipient (not absent, not an empty list), a subject
\* and an HTML body.
ValidMessage(m) ==
  /\ ~m.isNull
  /\ Truthy(m.to) /\ Len(ToArray(m.to)) >= 1
  /\ Truthy(m.subject)
  /\ Truthy(Or(m.html, m.htmlContent))

\* C7: the Resend adapter makes the vendor network call only with a
\* credential configured and a message that has at least one recipient, a
\* subject and an HTML body; otherwise no network call is made and no
\* success is reported. (Whether the failure is returned or thrown is C6.)
C7_NetworkOnlyWhenValid ==
  \A c \in ResendCalls :
    /\ c.net > 0 => (Truthy(apiKey) /\ ValidMessage(c.msg))
    /\ ~(Truthy(apiKey) /\ ValidMessage(c.msg)) => (c.net = 0 /\ ~c.result.success)

\* C8: a result of the Resend adapter with success=true carries a non-empty
\* provider message id and service 'resend'.
C8_SuccessCarriesMessageId ==
  \A c \in ResendCalls :
    (~c.threw /\ c.result.success)
      => (Truthy(c.result.messageId) /\ c.result.service = "resend")

\* C9: every value a router entry point returns has a boolean success and a
\* service field that is resend or ses.
C9_ReturnsDeliveryResult ==
  \A i \in DispatchIds :
    LET t == tasks[i] IN
    (t.pc = "done" /\ ~t.threw)
      => (t.returned.success \in BOOLEAN /\ t.returned.service \in {"resend", "ses"})

\* The register responses to requests that created a user.
RegisterCreated == {r \in responses : r.handler = "register" /\ r.task # 0}

\* C10: a registration with name, email and password of a user that did not
\* exist is answered 201 success in the step that starts the verification
\* send, while that send is still pending, and whatever the send then does
\* (success, failed result, vendor error) the response stays the 201.
C10_RegisterRespondsBeforeSend ==
  /\ \A r \in RegisterCreated :
       /\ r.status = 201 /\ r.success /\ ~r.sendSettled
       /\ tasks[r.task].origin = "register"
       /\ tasks[r.task].user.email = r.email
  /\ \A e \in Emails :
       users[e].exists => \E r \in RegisterCreated : r.email = e
  /\ \A i \in DispatchIds :
       tasks[i].origin = "register" => \E r \in RegisterCreated : r.task = i

C10_Witness ==
  \E r \in RegisterCreated :
    LET t == tasks[r.task] IN
    /\ r.status = 201 /\ ~r.sendSettled
    /\ t.pc = "done" /\ Len(t.calls) = 2
    /\ ~ControllerSendVerificationEmail(t).success
    /\ t.calls[1].result.error = "vendor error"

\* The value a finished router call returns, read off its own adapter
\* calls: the last call's result, or the catch block's value when that call
\* threw or the call never reached an adapter.
OwnOutcome(t) ==
  IF Len(t.calls) = 0
  THEN RouterCatch(t.kind, "TypeError")
  ELSE LET last == t.calls[Len(t.calls)] IN
       IF last.threw THEN RouterCatch(t.kind, last.error) ELSE last.result

C14_Inv ==
  \A i \in DispatchIds :
    LET t == tasks[i] IN
    (t.pc = "done" /\ ~t.threw) => t.returned = OwnOutcome(t)

\* C14: in every interleaving of concurrent router calls, a finished call's
\* result is the one its own primary and fallback invocations determine; a
\* step of one call leaves every other call as it is; and no step changes
\* primaryService or fallbackService.
C14_CallsIndependent ==
  /\ []C14_Inv
  /\ [][/\ primaryService' = primaryService
        /\ fallbackService' = fallbackService
        /\ \A i, j \in DispatchIds :
             (i # j /\ tasks'[i] # tasks[i]) => tasks'[j] = tasks[j]
        /\ \A i \in DispatchIds :
             tasks[i].pc = "done" => tasks'[i] = tasks[i]]_vars

C14_Witness ==
  /\ tasks[1].pc = "done" /\ tasks[2].pc = "done"
  /\ tasks[1].kind = "sendEmail" /\ tasks[2].kind = "sendEmail"
  /\ tasks[1].emailData = tasks[2].emailData
  /\ Len(tasks[1].calls) = 2 /\ Len(tasks[2].calls) = 1
  /\ ~tasks[1].returned.success /\ tasks[2].returned.success
  /\ tasks[1].returned.service = "ses" /\ tasks[2].returned.service = "resend"

\* C16: with primaryService # fallbackService, every router call that ends
\* with success=false has invoked the fallback adapter, also when the
\* primary adapter call threw.
C16_FailureImpliesFallbackTried ==
  \A i \in DispatchIds :
    LET t == tasks[i] IN
    (t.pc = "done" /\ ~t.threw /\ primaryService # fallbackService
       /\ ~t.returned.success)
      => FallbackCalls(t) # {}

\* Substring test.
Contains(s, sub) ==
  \E k \in 1 .. (Len(s) - Len(sub) + 1) : SubSeq(s, k, k + Len(sub) - 1) = sub

\* The configured frontend URL, or the default when none is configured.
FrontendBase ==
  IF env.FRONTEND_URL \in {Undefined, ""} THEN "http://localhost:3000"
  ELSE env.FRONTEND_URL

\* C15: for every profile and token, the verification message the Resend
\* adapter builds and hands to its sendEmail is addressed to profile.email,
\* and its HTML body and its text body both contain
\* {frontendBase}/verify-email?token={token}, frontendBase being the
\* configured frontend URL or the default.
C15_VerificationMessage ==
  \A i \in DispatchIds :
    LET t == tasks[i] IN
    t.kind = "sendVerificationEmail" =>
      \A k \in 1 .. Len(t.calls) :
        LET c == t.calls[k]
            url == FrontendBase \o "/verify-email?token=" \o t.token
        IN
        (c.adapter = "resend" /\ ~c.threw) =>
          /\ c.msg.to = t.user.email
          /\ Contains(c.msg.htmlContent, url)
          /\ Contains(c.msg.textContent, url)

\* A verification message was built by the Resend adapter with no frontend
\* URL configured, and sent.
C15_Witness ==
  \E i \in DispatchIds :
    LET t == tasks[i] IN
    /\ t.kind = "sendVerificationEmail"
    /\ env.FRONTEND_URL = Undefined
    /\ Len(t.calls) >= 1
    /\ t.calls[1].adapter = "resend"
    /\ ~t.calls[1].threw
    /\ t.calls[1].result.success
    /\ t.calls[1].msg.to = "a@x.org"
    /\ Contains(t.calls[1].msg.textContent,
                "http://localhost:3000/verify-email?token=tok123")

\* A message the Resend adapter's validation accepts.
ValidProbe == Msg("a@x.org", "Hi", "<p>hi</p>", Undefined)

\* The Resend adapter's send short-circuits as unconfigured.
ResendShortCircuits ==
  LET r == ResendSendEmail(apiKey, ValidProbe, "id") IN
  /\ r.net = 0
  /\ ~r.result.success
  /\ r.result.error = "RESEND_API_KEY not configured"

\* C13: once the services are constructed, whatever the order of loading
\* the environment and constructing the services, getStatus reports
\* resendConfigured = true exactly when the Resend adapter's send would not
\* short-circuit as unconfigured (and so false when no key is configured).
C13_StatusMatchesAdapter ==
  constructed => (GetStatus.resendConfigured <=> ~ResendShortCircuits)

\* C11: the response to a resend-verification request that started a send
\* is emitted after the send has settled, and reports success exactly when
\* the send's result has success=true.
C11_ResendReportsOutcome ==
  (lastResponse.handler = "resendVerification" /\ lastResponse.task # 0) =>
    LET t == tasks[lastResponse.task] IN
    /\ lastResponse.sendSettled
    /\ (t.pc = "done" /\ t.origin = "resendVerification"
          /\ t.user.email = lastResponse.email)
         => lastResponse.success = ControllerSendVerificationEmail(t).success

\* C17: whatever requests were served, a response carrying a JWT was made
\* for a user whose emailVerified flag is set.
C17_NoTokenForUnverified == lastResponse.token => lastResponse.verified

\* C18: when the token presented to verifyEmail matches no record, the
\* response is a 400 whose message depends only on whether some record has
\* emailVerified set: 'This verification link has already been used or is
\* invalid' if one has, 'Invalid verification token' if none has.
C18_UnmatchedTokenMessage ==
  (lastResponse.handler = "verifyEmail" /\ lastResponse.email = Undefined) =>
    /\ lastResponse.status = 400
    /\ lastResponse.message =
         IF lastResponse.anyVerified
         THEN "This verification link has already been used or is invalid"
         ELSE "Invalid verification token"

\* A token that was never issued is answered 'already been used' because
\* some user is verified.
C18_Witness ==
  /\ lastResponse.handler = "verifyEmail"
  /\ lastResponse.presented = "never-issued"
  /\ lastResponse.anyVerified
  /\ lastResponse.message =
       "This verification link has already been used or is invalid"

\* C19: a verification token verifies at most once: a verifyEmail request
\* presenting a token that has already verified an email is answered 400
\* and changes no user record.
C19_TokenVerifiesOnce ==
  (lastResponse.handler = "verifyEmail" /\ lastResponse.usedBefore) =>
    (lastResponse.status = 400 /\ ~lastResponse.changed)

\* The forgotPassword exchanges for a record that existed.
ResetSends == {r \in forgotReplies : r.exists}

\* C12: for a forgot-password request for an existing user, the
\* password-reset send hands the email manager one message addressed to the
\* user's email whose body contains
\* {frontendBase}/reset-password?token={token}, and yields a result object.
C12_ResetSendReachesRouter ==
  \A r \in ResetSends :
    /\ r.send.routerCalls = 1
    /\ r.send.to = r.email
    /\ Contains(r.send.message,
                FrontendBase \o "/reset-password?token=" \o ResetPasswordToken(r.email))
    /\ r.send.value # Undefined

\* C20: every forgotPassword response has the same status and body, whether
\* or not a record with the email existed.
C20_ForgotPasswordUniform ==
  \A r1, r2 \in forgotReplies :
    /\ r1.status = r2.status
    /\ r1.success = r2.success
    /\ r1.message = r2.message

\* The same address was answered once without a record and once with one,
\* the second time with a password-reset send that failed.
C20_Witness ==
  \E r1, r2 \in forgotReplies :
    /\ r1.email = r2.email
    /\ ~r1.exists
    /\ r2.exists
    /\ r2.send.started
    /\ r2.send.error # Undefined
    /\ r1.status = 200


====
